---- MODULE Spec2Model ----
(***************************************************************************)
(* State-machine model of bootloader/src/bootloader.c: main's dispatch     *)
(* loop, load_initial_firmware, load_firmware (the update protocol),       *)
(* sha_hmac, gcm_decrypt_and_verify, uart_read_variable, send_err,         *)
(* program_flash and boot_firmware.                                        *)
(*                                                                         *)
(* Buffers keep the C indices (functions over 0..n-1).  The flash page is  *)
(* WordsPerPage words of FLASH_WRITESIZE bytes (256 words in the source)   *)
(* and the firmware region is MaxPages pages (30 in the source); every     *)
(* other size is the source's.  One action is one stage of the code        *)
(* between two points where it blocks for the host.                        *)
(***************************************************************************)
EXTENDS Integers, Sequences, FiniteSets, TLC

----------------------------------------------------------------------------
(* Bounds *)

\* words in one flash page (the source has 1024 / 4 = 256)
WordsPerPage == 9
\* pages of the firmware region (the source has 0x7800 / 1024 = 30)
MaxPages == 2
\* flash program calls that may fail in one run of the model
MaxFlashFails == 1
\* U commands in one run of the model
MaxUpdates == 2

----------------------------------------------------------------------------
(* Constants of bootloader.c *)

METADATA_BASE == 64512
RELEASE_BASE == 63488
FW_BASE == 65536
FR_METADATA_SIZE == 6
FW_METADATA_SIZE == 6
FLASH_WRITESIZE == 4
FLASH_PAGESIZE == FLASH_WRITESIZE * WordsPerPage
FW_MAX_SIZE == MaxPages * FLASH_PAGESIZE
RELEASE_MAX_SIZE == FLASH_PAGESIZE
DATA_SIZE == FW_MAX_SIZE + FW_METADATA_SIZE + RELEASE_MAX_SIZE
HMAC_SIZE == 32
TAG_SIZE == 16
IV_SIZE == 16
OK == 0
ERROR == 1
UPDATE == 85
BOOT == 66
UART1 == 1
UART2 == 2

Byte == 0..255

----------------------------------------------------------------------------
(* C arithmetic on unsigned values *)

RECURSIVE Xor(_, _)
\* a ^ b
Xor(a, b) ==
  IF a = b THEN 0
  ELSE (((a % 2) + (b % 2)) % 2) + 2 * Xor(a \div 2, b \div 2)

RECURSIVE BitOr(_, _)
\* a | b
BitOr(a, b) ==
  IF a = 0 THEN b
  ELSE IF b = 0 THEN a
  ELSE (IF a % 2 = 1 \/ b % 2 = 1 THEN 1 ELSE 0) + 2 * BitOr(a \div 2, b \div 2)

RECURSIVE BitAnd(_, _)
\* a & b
BitAnd(a, b) ==
  IF a = 0 \/ b = 0 THEN 0
  ELSE (IF a % 2 = 1 /\ b % 2 = 1 THEN 1 ELSE 0) + 2 * BitAnd(a \div 2, b \div 2)

\* (uint16_t) m[k] | (uint16_t) m[k+1] << 8   (char is unsigned on the ARM EABI)
U16(m, k) == BitOr(m[k], (m[k + 1] * 256) % 65536)

\* the six bytes {(uint8_t) a, a >> 8, (uint8_t) b, b >> 8, (uint8_t) c, c >> 8}
Pack3(a, b, c) ==
  [k \in 0..5 |->
     CASE k = 0 -> a % 256
       [] k = 1 -> (a \div 256) % 256
       [] k = 2 -> b % 256
       [] k = 3 -> (b \div 256) % 256
       [] k = 4 -> c % 256
       [] OTHER -> (c \div 256) % 256]

\* one entry of the trace of observable events
Ev(e, ch, item, n) == [e |-> e, ch |-> ch, item |-> item, n |-> n]

----------------------------------------------------------------------------
(* Flash *)

PageAddrs(page_addr) == page_addr..(page_addr + FLASH_PAGESIZE - 1)

FlashAddrs ==
  PageAddrs(RELEASE_BASE) \cup PageAddrs(METADATA_BASE)
    \cup (FW_BASE..(FW_BASE + FW_MAX_SIZE - 1))

ErasedFlash == [a \in FlashAddrs |-> 255]

\* an erase that does nothing
FlashEraseNone(f, page_addr) == f

\* driverlib FlashErase: every byte of the page becomes 0xFF
FlashErase(f, page_addr) ==
  [a \in DOMAIN f |-> IF a \in PageAddrs(page_addr) THEN 255 ELSE f[a]]

\* driverlib FlashProgram: programming clears bits; a call that programs
\* nothing cannot fail, a failing call leaves the words unprogrammed and
\* returns -1
FlashProgram(f, src, off, addr, count, fails) ==
  IF count > 0 /\ fails
  THEN [flash |-> f, ret |-> -1]
  ELSE [flash |-> [a \in DOMAIN f |->
                     IF a >= addr /\ a < addr + count
                     THEN (IF f[a] = 255 THEN src[off + (a - addr)]
                           ELSE BitAnd(f[a], src[off + (a - addr)]))
                     ELSE f[a]],
        ret |-> 0]

\* a uint32_t as its four bytes, least significant first (as it lies in memory)
ZeroWord == [k \in 0..3 |-> 0]

\* (word >> 8) | (b << 24)
ShiftIn(word, b) == [k \in 0..3 |-> IF k < 3 THEN word[k + 1] ELSE BitOr(0, b)]

RECURSIVE LastWord(_, _, _, _, _)
\* the two loops that build the final word of program_flash
LastWord(src, base, rem, i, word) ==
  IF i >= 4 THEN word
  ELSE IF i < rem
       THEN LastWord(src, base, rem, i + 1, ShiftIn(word, src[base + i]))
       ELSE LastWord(src, base, rem, i + 1, ShiftIn(word, 255))

\* program_flash(page_addr, src + off, data_len); fail names the FlashProgram
\* call inside it that fails (0: none)
program_flash(f, page_addr, src, off, data_len, fail) ==
  LET erased == FlashErase(f, page_addr)
      rem == data_len % FLASH_WRITESIZE
      num_full_bytes == data_len - rem
  IN IF rem # 0
     THEN LET r1 == FlashProgram(erased, src, off, page_addr, num_full_bytes, fail = 1)
          IN IF r1.ret # 0
             THEN r1
             ELSE FlashProgram(r1.flash,
                               LastWord(src, off + num_full_bytes, rem, 0, ZeroWord),
                               0, page_addr + num_full_bytes, 4, fail = 2)
     ELSE FlashProgram(erased, src, off, page_addr, data_len, fail = 1)

----------------------------------------------------------------------------
(* The factory image *)

\* "This is the initial release message."
InitialMsg ==
  <<84, 104, 105, 115, 32, 105, 115, 32, 116, 104, 101, 32, 105, 110, 105,
    116, 105, 97, 108, 32, 114, 101, 108, 101, 97, 115, 101, 32, 109, 101,
    115, 115, 97, 103, 101, 46>>

InitialMsgBytes == [k \in 0..(Len(InitialMsg) - 1) |-> InitialMsg[k + 1]]

\* _binary_firmware_bin_size: one full page and a partial one
InitialFwSize == FLASH_PAGESIZE + 2

\* _binary_firmware_bin_start
InitialFw == [k \in 0..(InitialFwSize - 1) |-> 160 + (k % 64)]

----------------------------------------------------------------------------
(* State *)

VARIABLES
  pc,                  \* where the program is: the stage it blocks in
  flash,               \* the three flash regions, by address
  data,                \* unsigned char data[DATA_SIZE]
  fw_release_message,  \* unsigned char fw_release_message[RELEASE_MAX_SIZE]
  metadata,            \* load_firmware: char metadata[FW_METADATA_SIZE]
  version,             \* load_firmware: uint16_t version
  size,                \* load_firmware: uint16_t size
  r_msg_size,          \* load_firmware: uint16_t r_msg_size
  frame_number,        \* load_firmware: uint16_t frame_number
  index_check,         \* load_firmware: uint16_t index_check
  bytes_recieved,      \* load_firmware: uint32_t bytes_recieved
  flashFails,          \* FlashProgram calls that have failed so far
  updates,             \* U commands received so far
  log,                 \* reads, writes, verifications, flash programs and resets since the last command
  flashAtU,            \* the flash when the last U command was received
  up,                  \* the firmware metadata the host uploaded in this transaction
  fr,                  \* the last frame metadata whose MAC was verified
  frames,              \* the frames accepted in this transaction, in order
  outcome,             \* how the last transaction ended
  unit                 \* a call of program_flash or sha_hmac on its own: arguments and result

vars ==
  <<pc, flash, data, fw_release_message, metadata, version, size, r_msg_size,
    frame_number, index_check, bytes_recieved, flashFails, updates, log,
    flashAtU, up, fr, frames, outcome, unit>>

ram == <<data, fw_release_message, metadata, version, size, r_msg_size,
         frame_number, index_check, bytes_recieved>>

hist == <<flashAtU, up, fr, frames, outcome>>

env == <<flashFails, updates, unit>>

ZeroData == [k \in 0..(DATA_SIZE - 1) |-> 0]
ZeroMsg == [k \in 0..(RELEASE_MAX_SIZE - 1) |-> 0]
ZeroMeta == [k \in 0..(FW_METADATA_SIZE - 1) |-> 0]
NoUpload == [version |-> 0, size |-> 0, msg |-> 0]
NoFrame == [index |-> 0, len |-> 0, version |-> 0, expect |-> 0, last |-> 0, seq |-> 0]
NoCall == [op |-> "none", page |-> 0, src |-> 0, len |-> 0, prior |-> 0, fail |-> 0,
           diff |-> 0, done |-> FALSE, ret |-> 0, steps |-> 0]

\* static storage is zero at program start; load_firmware's locals are dead
StartRAM ==
  /\ data' = ZeroData
  /\ fw_release_message' = ZeroMsg
  /\ metadata' = ZeroMeta
  /\ version' = 0
  /\ size' = 0
  /\ r_msg_size' = 0
  /\ frame_number' = 0
  /\ index_check' = 0
  /\ bytes_recieved' = 0

Init ==
  /\ pc = "boot"
  /\ flash = ErasedFlash
  /\ data = ZeroData
  /\ fw_release_message = ZeroMsg
  /\ metadata = ZeroMeta
  /\ version = 0
  /\ size = 0
  /\ r_msg_size = 0
  /\ frame_number = 0
  /\ index_check = 0
  /\ bytes_recieved = 0
  /\ flashFails = 0
  /\ updates = 0
  /\ log = <<>>
  /\ flashAtU = ErasedFlash
  /\ up = NoUpload
  /\ fr = NoFrame
  /\ frames = <<>>
  /\ outcome = "none"
  /\ unit = NoCall

----------------------------------------------------------------------------
(* Helpers of bootloader.c *)

\* send_err: the diagnostic line, the ERROR byte, the reset
send_err ==
  <<Ev("write", UART2, "diag", 1), Ev("write", UART1, "ack", ERROR),
    Ev("reset", 0, "SysCtlReset", 0)>>

\* the OK written before the stage
AcknowledgeEarly(evs) == <<Ev("write", UART1, "ack", OK)>> \o evs

\* uart_write(UART1, OK) once the events evs of a stage have happened
Acknowledge(evs) == evs \o <<Ev("write", UART1, "ack", OK)>>

\* uart_read_variable(uart, BLOCKING, da, length): the port it reads and the
\* number of bytes it asks for; ok is the status of the reads
uart_read_variable(uart, item, length, ok) ==
  LET n == IF length < FLASH_PAGESIZE THEN length ELSE FLASH_PAGESIZE
  IN Ev(IF ok \/ n = 0 THEN "read" ELSE "read_err", UART1, item, n)

\* the read fails: check_read sends the error
ReadFailed(ev) == ev.e = "read_err"

\* BearSSL HMAC-SHA256 under hmac_key, as a digest of the bytes d[off..off+len-1]
br_hmac(d, off, len) ==
  LET c == 7 * len + (IF len > 0 THEN d[off] + d[off + len - 1] ELSE 0)
  IN [i \in 0..(HMAC_SIZE - 1) |-> (c + 3 * i) % 256]

\* a MAC the host sends with one bit of its last byte flipped
Tampered(out) ==
  [i \in 0..(HMAC_SIZE - 1) |-> IF i = HMAC_SIZE - 1 THEN Xor(out[i], 1) ELSE out[i]]

\* the MAC the host sends for data whose MAC is out
SentMac(out, valid) == IF valid THEN out ELSE Tampered(out)

RECURSIVE hmac_check_early(_, _, _, _)
\* a compare that stops at the first byte that differs
hmac_check_early(hmac, out, i, check) ==
  IF i >= HMAC_SIZE \/ check # 0 THEN [check |-> check, steps |-> i]
  ELSE hmac_check_early(hmac, out, i + 1, BitOr(check, Xor(hmac[i], out[i])))

RECURSIVE hmac_check(_, _, _, _)
\* for(i = 0; i < HMAC_SIZE; i++) check |= hmac[i] ^ out[i];
hmac_check(hmac, out, i, check) ==
  IF i >= HMAC_SIZE THEN [check |-> check, steps |-> i]
  ELSE hmac_check(hmac, out, i + 1, BitOr(check, Xor(hmac[i], out[i])))

\* sha_hmac's verdict on the MAC it read: 0 (after send_err) or 32
sha_hmac(d, off, len, hmac) ==
  LET out == br_hmac(d, off, len)
  IN IF hmac_check(hmac, out, 0, 0).check # 0 THEN 0 ELSE 32

\* the events of one sha_hmac call: the read of the MAC, then the verdict
HmacEvents(item, readok, verdict) ==
  LET rd == uart_read_variable(UART2, "hmac", HMAC_SIZE, readok)
  IN IF ReadFailed(rd) THEN <<rd>> \o send_err
     ELSE IF verdict = 0 THEN <<rd, Ev("verify", 0, item, 0)>> \o send_err
     ELSE <<rd, Ev("verify", 0, item, 1)>>

\* the flash pages whose programming may fail
FailPages == {METADATA_BASE}

\* a failing program_flash call fails in its first FlashProgram that programs a word
FailAt(len) == IF len - (len % FLASH_WRITESIZE) > 0 THEN 1 ELSE 2

RECURSIVE RunCalls(_, _, _, _, _, _, _)
\* a run of program_flash calls of which call k fails (0: none);
\* stop: the caller checks the result and stops at the first failure
RunCalls(f, calls, i, k, stop, evs, fails) ==
  IF i > Len(calls) THEN [flash |-> f, evs |-> evs, fails |-> fails, ret |-> 0]
  ELSE LET c == calls[i]
           r == program_flash(f, c.addr, c.src, c.off, c.len,
                              IF i = k THEN FailAt(c.len) ELSE 0)
           ev == Ev("prog", 0, c.item, r.ret)
           nf == IF r.ret # 0 THEN fails + 1 ELSE fails
       IN IF r.ret # 0 /\ stop
          THEN [flash |-> r.flash, evs |-> Append(evs, ev), fails |-> nf, ret |-> r.ret]
          ELSE RunCalls(r.flash, calls, i + 1, k, stop, Append(evs, ev), nf)

Call(addr, src, off, len, item) ==
  [addr |-> addr, src |-> src, off |-> off, len |-> len, item |-> item]

\* the firmware pages of a commit or of the factory image
RECURSIVE PageCalls(_, _, _, _)
PageCalls(src, total, i, acc) ==
  IF i >= total THEN acc
  ELSE PageCalls(src, total, i + FLASH_PAGESIZE,
                 Append(acc, Call(FW_BASE + i, src, i,
                                  IF total - i > FLASH_PAGESIZE THEN FLASH_PAGESIZE
                                  ELSE total - i, "fw")))

\* *((uint32_t*)(METADATA_BASE)) != 0xFFFFFFFF
Provisioned(f) == \E k \in 0..3 : f[METADATA_BASE + k] # 255

\* the program_flash calls of load_initial_firmware
InitialCalls ==
  LET full == InitialFwSize \div FLASH_PAGESIZE
  IN <<Call(METADATA_BASE, Pack3(2, InitialFwSize, 36), 0, FW_METADATA_SIZE, "meta"),
       Call(RELEASE_BASE, InitialMsgBytes, 0, 36, "msg")>>
     \o [i \in 1..full |->
           Call(FW_BASE + (i - 1) * FLASH_PAGESIZE, InitialFw,
                (i - 1) * FLASH_PAGESIZE, FLASH_PAGESIZE, "fw")]
     \o <<Call(FW_BASE + full * FLASH_PAGESIZE, InitialFw, full * FLASH_PAGESIZE,
               InitialFwSize % FLASH_PAGESIZE, "fw")>>

\* load_initial_firmware: the results of program_flash are not looked at
load_initial_firmware(f, k) ==
  IF Provisioned(f) THEN [flash |-> f, evs |-> <<>>, fails |-> 0, ret |-> 0]
  ELSE RunCalls(f, InitialCalls, 1, k, FALSE, <<>>, 0)

----------------------------------------------------------------------------
(* main *)

\* power-on or reset: main up to the dispatch loop
Boot ==
  /\ pc = "boot"
  /\ \E k \in 0..Len(InitialCalls) :
        /\ (k # 0 => /\ flashFails < MaxFlashFails
                      /\ ~Provisioned(flash)
                      /\ InitialCalls[k].addr \in FailPages)
        /\ LET r == load_initial_firmware(flash, k)
           IN /\ flash' = r.flash
              /\ flashFails' = flashFails + r.fails
              /\ log' = log \o r.evs \o <<Ev("write", UART2, "welcome", 3)>>
  /\ pc' = "idle"
  /\ UNCHANGED <<ram, hist, updates, unit>>

\* boot_firmware: the stored release message goes to UART2, then the jump
boot_firmware(f) ==
  LET msg_size == BitOr((f[METADATA_BASE + 5] * 256) % 65536, f[METADATA_BASE + 4])
  IN <<Ev("write", UART2, "release_msg",
          IF msg_size < RELEASE_MAX_SIZE THEN msg_size ELSE RELEASE_MAX_SIZE),
       Ev("jump", 0, "firmware", FW_BASE + 1)>>

\* one turn of the dispatch loop: resp, the status of the read, is not looked at
Dispatch ==
  /\ pc = "idle"
  /\ \E instruction \in {UPDATE, BOOT, 32}, resp \in BOOLEAN :
        LET rd == Ev(IF resp THEN "read" ELSE "read_err", UART1, "cmd", 1)
        IN IF instruction = UPDATE
           THEN /\ updates < MaxUpdates
                /\ pc' = "meta"
                /\ updates' = updates + 1
                /\ log' = <<rd, Ev("write", UART1, "echo", UPDATE),
                            Ev("write", UART2, "bolt", 1)>>
                /\ flashAtU' = flash
                /\ up' = NoUpload
                /\ fr' = NoFrame
                /\ frames' = <<>>
                /\ outcome' = "none"
                /\ UNCHANGED <<flash, ram, flashFails, unit>>
           ELSE IF instruction = BOOT
           THEN /\ pc' = "booted"
                /\ log' = <<rd, Ev("write", UART1, "echo", BOOT)>> \o boot_firmware(flash)
                /\ flashAtU' = flash
                /\ up' = NoUpload
                /\ fr' = NoFrame
                /\ frames' = <<>>
                /\ outcome' = "none"
                /\ UNCHANGED <<flash, ram, env>>
           ELSE UNCHANGED vars

\* the firmware runs until the device is power-cycled or reset over UART0
PowerCycle ==
  /\ pc = "booted"
  /\ pc' = "boot"
  /\ StartRAM
  /\ log' = <<>>
  /\ UNCHANGED <<flash, env, hist>>

\* send_err and the restart that follows it: the RAM is lost
Reject(evs, why) ==
  /\ pc' = "boot"
  /\ StartRAM
  /\ log' = log \o evs
  /\ outcome' = why

\* an out-of-bounds write to data[]: undefined behaviour, nothing more is known
Crash(evs) ==
  /\ pc' = "undefined"
  /\ log' = log \o evs \o <<Ev("oob", 0, "data", 0)>>
  /\ UNCHANGED <<ram, outcome>>

----------------------------------------------------------------------------
(* What the host sends *)

Versions == {0, 1, 2, 3}
FwSizes == {0, FLASH_PAGESIZE + 2, FW_MAX_SIZE + 1}
MsgSizes == {5, RELEASE_MAX_SIZE + 1}
FrameLens == {0, 2, FLASH_PAGESIZE, FLASH_PAGESIZE + 1}

\* byte i of the payload of frame index; uploads of different versions differ
PayloadByte(v, index, i) == 1 + ((97 * v + 41 * index + 7 * i) % 251)

\* byte i of the release message of an upload
MsgByte(v, i) == 65 + ((11 * v + i) % 26)

----------------------------------------------------------------------------
(* load_firmware: the checks *)

\* frame_number = ceil((float) size / FLASH_PAGESIZE) - 1, converted to uint16_t;
\* for size = 0 the value -1.0 is out of range: ub is what the conversion yields
FrameNumber(sz, ub) ==
  IF sz = 0 THEN ub ELSE ((sz + FLASH_PAGESIZE - 1) \div FLASH_PAGESIZE) - 1

\* what the conversion of -1.0 to uint16_t may yield: 0 (saturating), 0xFFFF (wrapping)
FrameNumberUB == {0, 65535}

\* old_version = (*((uint8_t*) METADATA_BASE+1) << 8) | *((uint8_t*)(METADATA_BASE))
StoredVersion(f) == BitOr((f[METADATA_BASE + 1] * 256) % 65536, f[METADATA_BASE])

\* the rollback test with <= for <
RollbackOrEqual(v, old_version) == v # 0 /\ v <= old_version

\* version != 0 && version < old_version
Rollback(v, old_version) == v # 0 /\ v < old_version

\* the size test off by one
SizeTooBigOff(sz) == sz > FW_MAX_SIZE + 1

\* size > FW_MAX_SIZE
SizeTooBig(sz) == sz > FW_MAX_SIZE

\* r_msg_size > RELEASE_MAX_SIZE
MsgTooBig(ms) == ms > RELEASE_MAX_SIZE

\* the index test without the comparison to the counter
IndexBadNoOrder(index, check, last) == index > last

\* index != index_check || index > frame_number
IndexBad(index, check, last) == index # check \/ index > last

\* frame_length > FLASH_PAGESIZE
FrameTooLong(frame_length) == frame_length > FLASH_PAGESIZE

\* the version test with the reserved version let through
VersionBadSlip(v, frame_version) == v # frame_version /\ frame_version # 1

\* version != frame_version || frame_version == 1
VersionBad(v, frame_version) == v # frame_version \/ frame_version = 1

\* bytes_recieved > size, tested after each byte
Overrun(received, sz) == received > sz

\* if(index == frame_number) break;
LastFrame(index, last) == index = last

\* frames staged with their metadata between them
FrameOffsetStride(index, i) == (FLASH_PAGESIZE + FR_METADATA_SIZE) * index + i

\* the offset in data[] of byte i of frame index
FrameOffset(index, i) == FLASH_PAGESIZE * index + i

----------------------------------------------------------------------------
(* load_firmware: the firmware metadata *)

RecvMeta ==
  /\ pc = "meta"
  /\ \E v \in Versions, sz \in FwSizes, ms \in MsgSizes,
        ub \in FrameNumberUB,
        fault \in {"none", "read", "hmac_read", "hmac"} :
       LET m == Pack3(v, sz, ms)
           rd == uart_read_variable(UART1, "fw_meta", FW_METADATA_SIZE, fault # "read")
           out == br_hmac(m, 0, FW_METADATA_SIZE)
           mac == SentMac(out, fault # "hmac")
           hev == HmacEvents("fw_meta", fault # "hmac_read",
                             sha_hmac(m, 0, FW_METADATA_SIZE, mac))
           ver == U16(m, 0)
           fsz == U16(m, 2)
           msz == U16(m, 4)
           sent == [version |-> v, size |-> sz, msg |-> ms]
       IN /\ (sz # 0 => ub = 0)
          /\ (fault # "none" => v = 0 /\ sz = 0 /\ ms = 5)
          /\ UNCHANGED <<flash, env, flashAtU, fr, frames>>
          /\ IF ReadFailed(rd)
             THEN Reject(<<rd>> \o send_err, "rej_meta") /\ up' = up
             ELSE IF hev[Len(hev)].e = "reset"
             THEN Reject(<<rd>> \o hev, "rej_meta") /\ up' = up
             ELSE /\ up' = sent
                  /\ IF \/ Rollback(ver, StoredVersion(flash))
                             \/ SizeTooBig(fsz)
                             \/ MsgTooBig(msz)
                     THEN Reject(<<rd>> \o hev \o send_err, "rej_meta")
                     ELSE /\ pc' = "frame"
                          /\ log' = log \o Acknowledge(<<rd>> \o hev)
                          /\ metadata' = m
                          /\ version' = ver
                          /\ size' = fsz
                          /\ r_msg_size' = msz
                          /\ frame_number' = FrameNumber(fsz, ub)
                          /\ UNCHANGED <<data, fw_release_message, index_check,
                                         bytes_recieved, outcome>>

----------------------------------------------------------------------------
(* load_firmware: one frame *)

\* data[] after the frame loop has stored n bytes of frame index and appended
\* the frame metadata behind them
StageFrame(d, index, n, v, frm) ==
  [k \in DOMAIN d |->
     IF k >= FrameOffset(index, 0) /\ k < FrameOffset(index, n)
     THEN PayloadByte(v, index, k - FrameOffset(index, 0))
     ELSE IF k >= FrameOffset(index, n) /\ k < FrameOffset(index, n) + FR_METADATA_SIZE
     THEN frm[k - FrameOffset(index, n)]
     ELSE d[k]]

RecvFrame ==
  /\ pc = "frame"
  /\ \E idx \in {0, index_check, (index_check + 1) % 65536}, fl \in FrameLens,
        fv \in {0, 1, version},
        fault \in {"none", "read", "hmac", "read_payload", "hmac2"} :
       LET frm == Pack3(idx, fl, fv)
           rd == uart_read_variable(UART2, "fr_meta", FR_METADATA_SIZE, fault # "read")
           out == br_hmac(frm, 0, FR_METADATA_SIZE)
           mac == SentMac(out, fault # "hmac")
           hev == HmacEvents("fr_meta", TRUE,
                             sha_hmac(frm, 0, FR_METADATA_SIZE, mac))
           index == U16(frm, 0)
           frame_length == U16(frm, 2)
           frame_version == U16(frm, 4)
           \* the bytes the read loop asks for, and those it gets before it stops
           n == IF frame_length < FLASH_PAGESIZE THEN frame_length ELSE FLASH_PAGESIZE
           room == size - bytes_recieved
           got == IF fault = "read_payload" /\ n > 0 THEN 1
                  ELSE IF n > room THEN room + 1 ELSE n
           prd == Ev(IF fault = "read_payload" /\ n > 0 THEN "read_err" ELSE "read",
                     UART1, "payload", got)
           staged == StageFrame(data, index, n, version, frm)
           out2 == br_hmac(staged, FrameOffset(index, 0), frame_length + FR_METADATA_SIZE)
           mac2 == SentMac(out2, fault # "hmac2")
           hev2 == HmacEvents("frame", TRUE,
                              sha_hmac(staged, FrameOffset(index, 0),
                                       frame_length + FR_METADATA_SIZE, mac2))
           pre == <<rd>> \o hev
           this == [index |-> index, len |-> frame_length, version |-> frame_version,
                    expect |-> index_check, last |-> frame_number,
                    seq |-> fr.seq + 1]
           bad == \/ IndexBad(index, index_check, frame_number)
                  \/ FrameTooLong(frame_length)
                  \/ VersionBad(version, frame_version)
       IN /\ (fault \in {"read", "hmac"} => idx = 0 /\ fl = 2 /\ fv = 0)
          /\ (fault = "read_payload" => ~bad /\ n > 0)
          /\ (fault = "hmac2" => ~bad /\ n <= room)
          /\ (fl = 0 => size = 0)
          /\ (idx # index_check => fl = 2 /\ fv = version)
          /\ (fv # version => fl = 2)
          /\ UNCHANGED <<flash, env, flashAtU, up>>
          /\ fr' = IF ReadFailed(rd) \/ hev[Len(hev)].e = "reset" THEN fr ELSE this
          /\ IF ReadFailed(rd)
             THEN Reject(<<rd>> \o send_err, "rej_frame") /\ frames' = frames
             ELSE IF hev[Len(hev)].e = "reset"
             THEN Reject(pre, "rej_frame") /\ frames' = frames
             ELSE IF bad
             THEN Reject(pre \o send_err, "rej_frame") /\ frames' = frames
             ELSE IF got > 0 /\ FrameOffset(index, got - 1) >= DATA_SIZE
             THEN Crash(pre) /\ frames' = frames
             ELSE IF ReadFailed(prd) \/ Overrun(bytes_recieved + got, size)
             THEN Reject(pre \o <<prd>> \o send_err, "rej_frame") /\ frames' = frames
             ELSE IF FrameOffset(index, n) + FR_METADATA_SIZE - 1 >= DATA_SIZE
             THEN Crash(pre \o <<prd>>) /\ frames' = frames
             ELSE IF hev2[Len(hev2)].e = "reset"
             THEN Reject(pre \o <<prd>> \o hev2, "rej_frame") /\ frames' = frames
             ELSE /\ pc' = IF LastFrame(index, frame_number) THEN "fwmac" ELSE "frame"
                  /\ log' = log \o Acknowledge(pre \o <<prd>> \o hev2)
                  /\ data' = staged
                  /\ bytes_recieved' = bytes_recieved + n
                  /\ index_check' = (index_check + 1) % 65536
                  /\ frames' = Append(frames, this)
                  /\ UNCHANGED <<fw_release_message, metadata, version, size,
                                 r_msg_size, frame_number, outcome>>

----------------------------------------------------------------------------
(* load_firmware: the whole firmware, the release message, the combined MAC *)

VerifyFirmware ==
  /\ pc = "fwmac"
  /\ \E fault \in {"none", "hmac_read", "hmac"} :
       LET out == br_hmac(data, 0, size)
           hev == HmacEvents("firmware", fault # "hmac_read",
                             sha_hmac(data, 0, size, SentMac(out, fault # "hmac")))
       IN /\ (size # bytes_recieved => fault = "none")
          /\ UNCHANGED <<flash, env, flashAtU, up, fr, frames>>
          /\ IF size # bytes_recieved
             THEN Reject(send_err, "rej_size")
             ELSE IF hev[Len(hev)].e = "reset"
             THEN Reject(hev, "rej_fwmac")
             ELSE /\ pc' = "msg"
                  /\ log' = log \o Acknowledge(hev)
                  /\ UNCHANGED <<ram, outcome>>

\* fw_release_message[] after the n bytes of the upload have been read into it
StoreMsg(buf, n, v) ==
  [k \in DOMAIN buf |-> IF k < n THEN MsgByte(v, k) ELSE buf[k]]

RecvMsg ==
  /\ pc = "msg"
  /\ \E fault \in {"none", "read", "hmac_read", "hmac"} :
       LET rd == uart_read_variable(UART2, "release_msg", r_msg_size, fault # "read")
           msg == StoreMsg(fw_release_message, rd.n, version)
           out == br_hmac(msg, 0, r_msg_size)
           hev == HmacEvents("release_msg", fault # "hmac_read",
                             sha_hmac(msg, 0, r_msg_size, SentMac(out, fault # "hmac")))
       IN /\ (fault = "read" => rd.n > 0)
          /\ UNCHANGED <<flash, env, flashAtU, up, fr, frames>>
          /\ IF ReadFailed(rd)
             THEN Reject(<<rd>> \o send_err, "rej_msg")
             ELSE IF hev[Len(hev)].e = "reset"
             THEN Reject(<<rd>> \o hev, "rej_msg")
             ELSE /\ pc' = "combined"
                  /\ log' = log \o Acknowledge(<<rd>> \o hev)
                  /\ fw_release_message' = msg
                  /\ UNCHANGED <<data, metadata, version, size, r_msg_size,
                                 frame_number, index_check, bytes_recieved, outcome>>

\* the number of release-message bytes the two copy loops move
MsgCopied(ms) == IF ms < RELEASE_MAX_SIZE THEN ms ELSE RELEASE_MAX_SIZE

\* data[] with the firmware metadata and the release message behind the firmware
AppendMeta(d, sz, m, msg, ms) ==
  [k \in DOMAIN d |->
     IF k >= sz /\ k < sz + FW_METADATA_SIZE THEN m[k - sz]
     ELSE IF k >= sz + FW_METADATA_SIZE /\ k < sz + FW_METADATA_SIZE + MsgCopied(ms)
     THEN msg[k - sz - FW_METADATA_SIZE]
     ELSE d[k]]

\* data[] with everything behind the firmware set to zero
ZeroOut(d, sz, ms) ==
  [k \in DOMAIN d |->
     IF k >= sz /\ k < sz + FW_METADATA_SIZE + MsgCopied(ms) THEN 0 ELSE d[k]]

Combined ==
  /\ pc = "combined"
  /\ \E fault \in {"none", "hmac_read", "hmac"} :
       LET d1 == AppendMeta(data, size, metadata, fw_release_message, r_msg_size)
           total == size + FW_METADATA_SIZE + r_msg_size
           out == br_hmac(d1, 0, total)
           hev == HmacEvents("combined", fault # "hmac_read",
                             sha_hmac(d1, 0, total, SentMac(out, fault # "hmac")))
       IN /\ UNCHANGED <<flash, env, flashAtU, up, fr, frames>>
          /\ IF hev[Len(hev)].e = "reset"
             THEN Reject(hev, "rej_combined")
             ELSE /\ pc' = "decrypt"
                  /\ log' = log \o Acknowledge(hev)
                  /\ data' = ZeroOut(d1, size, r_msg_size)
                  /\ UNCHANGED <<fw_release_message, metadata, version, size, r_msg_size,
                                 frame_number, index_check, bytes_recieved, outcome>>

----------------------------------------------------------------------------
(* gcm_decrypt_and_verify *)

\* the IV the host sends
HostIV == [k \in 0..(IV_SIZE - 1) |-> 16 + k]

\* byte i of the AES-CTR key stream under aes_key and the IV
KeyStream(iv, i) == (iv[0] + 29 * i + 17) % 256

\* the GCM tag of ct[0..len-1] under aes_key and the IV
br_gcm_tag(ct, len, iv) ==
  LET c == 5 * len + iv[0] + (IF len > 0 THEN ct[0] + ct[len - 1] ELSE 0)
  IN [k \in 0..(TAG_SIZE - 1) |-> (c + 7 * k) % 256]

\* br_gcm_run: the first ct_len bytes are decrypted in place
br_gcm_run(d, ct_len, iv) ==
  [k \in DOMAIN d |-> IF k < ct_len THEN Xor(d[k], KeyStream(iv, k)) ELSE d[k]]

\* br_gcm_check_tag
br_gcm_check_tag(computed, tag) ==
  \A k \in 0..(TAG_SIZE - 1) : computed[k] = tag[k]

Decrypt ==
  /\ pc = "decrypt"
  /\ \E fault \in {"none", "read_iv", "read_tag", "tag"} :
       LET rdiv == uart_read_variable(UART2, "iv", IV_SIZE, fault # "read_iv")
           rdtag == uart_read_variable(UART2, "tag", TAG_SIZE, fault # "read_tag")
           computed == br_gcm_tag(data, size, HostIV)
           tag == [k \in 0..(TAG_SIZE - 1) |->
                     IF fault = "tag" /\ k = 0 THEN Xor(computed[k], 1) ELSE computed[k]]
       IN /\ UNCHANGED <<flash, env, flashAtU, up, fr, frames>>
          /\ IF ReadFailed(rdiv)
             THEN Reject(<<rdiv>> \o send_err, "rej_decrypt")
             ELSE IF ReadFailed(rdtag)
             THEN Reject(<<rdiv, rdtag>> \o send_err, "rej_decrypt")
             ELSE IF ~br_gcm_check_tag(computed, tag)
             THEN Reject(<<rdiv, rdtag, Ev("verify", 0, "gcm", 0)>> \o send_err,
                         "rej_decrypt")
             ELSE /\ pc' = "commit"
                  /\ log' = log \o Acknowledge(<<rdiv, rdtag, Ev("verify", 0, "gcm", 1)>>)
                  /\ data' = br_gcm_run(data, size, HostIV)
                  /\ UNCHANGED <<fw_release_message, metadata, version, size, r_msg_size,
                                 frame_number, index_check, bytes_recieved, outcome>>

----------------------------------------------------------------------------
(* load_firmware: the commit *)

\* the metadata flashed as uploaded
CommitMetaAsSent(m, v, f) == m

\* the metadata that is flashed: a debug upload keeps the stored version bytes
CommitMeta(m, v, f) ==
  [k \in 0..(FW_METADATA_SIZE - 1) |->
     IF v = 0 /\ k < 2 THEN f[METADATA_BASE + k] ELSE m[k]]

\* the program_flash calls of the commit, in order
CommitCalls(d, sz, m, v, msg, ms, f) ==
  PageCalls(d, sz, 0, <<>>)
    \o <<Call(METADATA_BASE, CommitMeta(m, v, f), 0, FW_METADATA_SIZE, "meta"),
         Call(RELEASE_BASE, msg, 0, ms, "msg")>>

Commit ==
  /\ pc = "commit"
  /\ LET calls == CommitCalls(data, size, metadata, version, fw_release_message,
                              r_msg_size, flash)
     IN \E k \in 0..Len(calls) :
          /\ (k # 0 => flashFails < MaxFlashFails /\ calls[k].addr \in FailPages)
          /\ LET r == RunCalls(flash, calls, 1, k, TRUE, <<>>, 0)
             IN /\ flash' = r.flash
                /\ flashFails' = flashFails + r.fails
                /\ UNCHANGED <<updates, unit, flashAtU, up, fr, frames>>
                /\ IF r.ret # 0
                   THEN Reject(r.evs \o send_err, "rej_commit")
                   ELSE /\ pc' = "idle"
                        /\ log' = log \o r.evs
                        /\ outcome' = "committed"
                        /\ metadata' = ZeroMeta
                        /\ version' = 0
                        /\ size' = 0
                        /\ r_msg_size' = 0
                        /\ frame_number' = 0
                        /\ index_check' = 0
                        /\ bytes_recieved' = 0
                        /\ UNCHANGED <<data, fw_release_message>>

Next ==
  \/ Boot
  \/ Dispatch
  \/ PowerCycle
  \/ RecvMeta
  \/ RecvFrame
  \/ VerifyFirmware
  \/ RecvMsg
  \/ Combined
  \/ Decrypt
  \/ Commit

Spec == Init /\ [][Next]_vars

----------------------------------------------------------------------------
(* program_flash and sha_hmac on their own *)

\* the page addresses program_flash is called with
UnitPages == {METADATA_BASE, FW_BASE + FLASH_PAGESIZE}

\* the buffers it is called with
UnitSrc(s) == [k \in 0..(FLASH_PAGESIZE - 1) |-> (131 * s + 53 * k + 200) % 256]

\* what the flash holds before the call: erased, all zero, or earlier contents
UnitFlash(b) ==
  [a \in FlashAddrs |-> IF b = 0 THEN 255 ELSE IF b = 1 THEN 0 ELSE (a * 7) % 256]

\* where, and in which bits, a received MAC differs from the computed one
DiffPos(d) ==
  CASE d = 0 -> {}
    [] d = 1 -> {0}
    [] d = 2 -> {HMAC_SIZE - 1}
    [] d = 3 -> {0, HMAC_SIZE - 1}
    [] d = 4 -> {HMAC_SIZE \div 2}
    [] OTHER -> 0..(HMAC_SIZE - 1)

DiffBits(d) ==
  CASE d = 2 -> 128
    [] d = 3 -> 255
    [] d = 4 -> 16
    [] OTHER -> 1

\* the MAC read from the UART
Received(out, d) ==
  [i \in 0..(HMAC_SIZE - 1) |->
     IF i \in DiffPos(d) THEN Xor(out[i], DiffBits(d)) ELSE out[i]]

UnitCalls ==
  {[NoCall EXCEPT !.op = "program_flash", !.page = p, !.src = s, !.len = n,
                  !.prior = b, !.fail = x] :
     p \in UnitPages, s \in 0..1, n \in 0..FLASH_PAGESIZE, b \in 0..2, x \in 0..2}
  \cup
  {[NoCall EXCEPT !.op = "sha_hmac", !.src = s, !.len = n, !.diff = d] :
     s \in 0..1, n \in {0, FW_METADATA_SIZE, FLASH_PAGESIZE}, d \in 0..5}

InitUnit ==
  /\ pc = "unit"
  /\ unit \in UnitCalls
  /\ flash = UnitFlash(unit.prior)
  /\ data = ZeroData
  /\ fw_release_message = ZeroMsg
  /\ metadata = ZeroMeta
  /\ version = 0
  /\ size = 0
  /\ r_msg_size = 0
  /\ frame_number = 0
  /\ index_check = 0
  /\ bytes_recieved = 0
  /\ flashFails = 0
  /\ updates = 0
  /\ log = <<>>
  /\ flashAtU = flash
  /\ up = NoUpload
  /\ fr = NoFrame
  /\ frames = <<>>
  /\ outcome = "none"

\* program_flash(unit.page, src, unit.len)
ProgramFlashCall ==
  /\ pc = "unit"
  /\ unit.op = "program_flash"
  /\ ~unit.done
  /\ LET r == program_flash(flash, unit.page, UnitSrc(unit.src), 0, unit.len, unit.fail)
     IN /\ flash' = r.flash
        /\ unit' = [unit EXCEPT !.done = TRUE, !.ret = r.ret]
  /\ UNCHANGED <<pc, ram, flashFails, updates, log, hist>>

\* sha_hmac(src, unit.len) with the MAC the UART delivers
HmacCall ==
  /\ pc = "unit"
  /\ unit.op = "sha_hmac"
  /\ ~unit.done
  /\ LET out == br_hmac(UnitSrc(unit.src), 0, unit.len)
         hmac == Received(out, unit.diff)
     IN unit' = [unit EXCEPT !.done = TRUE,
                             !.ret = sha_hmac(UnitSrc(unit.src), 0, unit.len, hmac),
                             !.steps = hmac_check(hmac, out, 0, 0).steps]
  /\ UNCHANGED <<pc, flash, ram, flashFails, updates, log, hist>>

NextUnit == ProgramFlashCall \/ HmacCall

SpecUnit == InitUnit /\ [][NextUnit]_vars

----------------------------------------------------------------------------
(* Reading the trace *)

\* an event without the port it used
Shape(ev) == <<ev.e, ev.item, ev.n>>
Shapes(evs) == [i \in DOMAIN evs |-> Shape(evs[i])]

AckOK == Ev("write", UART1, "ack", OK)
AckERROR == Ev("write", UART1, "ack", ERROR)

\* the MAC of the firmware metadata of this transaction has been verified
MetaVerified == \E i \in DOMAIN log : log[i] = Ev("verify", 0, "fw_meta", 1)

\* the place in the log of the last frame metadata whose MAC was verified
LastFrameVerify ==
  CHOOSE i \in DOMAIN log :
    /\ log[i] = Ev("verify", 0, "fr_meta", 1)
    /\ \A j \in DOMAIN log : log[j] = Ev("verify", 0, "fr_meta", 1) => j <= i

\* the log goes on with send_err right after place i
ErrorAfter(i) == Len(log) >= i + 3 /\ SubSeq(log, i + 1, i + 3) = send_err

\* the last verified frame metadata was accepted
Accepted(f) == Len(frames) > 0 /\ frames[Len(frames)] = f

\* rejections before the first program_flash of the commit
PreCommitRejects ==
  {"rej_meta", "rej_frame", "rej_size", "rej_fwmac", "rej_msg", "rej_combined",
   "rej_decrypt"}

PostFrame == {"fwmac", "msg", "combined", "decrypt", "commit"}

RECURSIVE SumLen(_, _)
\* the payload bytes of the first n accepted frames
SumLen(fs, n) == IF n = 0 THEN 0 ELSE SumLen(fs, n - 1) + fs[n].len

\* the 16-bit little-endian field of the stored metadata at offset k
StoredField(f, k) == f[METADATA_BASE + k] + 256 * f[METADATA_BASE + k + 1]

----------------------------------------------------------------------------
(* Claims *)

\* C1: after an update rejected before the commit's first program_flash, and
\* the restart that follows, the flash is what it was when U was received.
C1_PreCommitRejectKeepsFlash ==
  (pc = "idle" /\ outcome \in PreCommitRejects) => flash = flashAtU

\* C2: a metadata with a valid MAC and a version v, 0 < v < stored version, is
\* rejected at the metadata stage: the error follows the verification
\* directly (no OK, no frame read, no flash program), the flash is untouched;
\* any other version passes the version check, so that a metadata within the
\* size bounds is acknowledged.
C2_RollbackRejectedAtMetadata ==
  MetaVerified =>
    IF up.version > 0 /\ up.version < StoredVersion(flashAtU)
    THEN /\ outcome = "rej_meta"
         /\ ErrorAfter(6)
         /\ (pc = "boot" => flash = flashAtU)
    ELSE (up.size <= FW_MAX_SIZE /\ up.msg <= RELEASE_MAX_SIZE)
           => (Len(log) >= 7 /\ log[7] = AckOK)

C2_Witness ==
  /\ pc = "boot"
  /\ MetaVerified
  /\ up.version = 2
  /\ StoredVersion(flashAtU) = 3
  /\ outcome = "rej_meta"

\* C3: a committed upload of version 0 leaves the stored version bytes as
\* they were; the stored sizes, the release message and the firmware region
\* (the decrypted payload, where it was staged) are the upload's.
C3_DebugUploadKeepsVersion ==
  (pc = "idle" /\ outcome = "committed" /\ up.version = 0) =>
    /\ flash[METADATA_BASE] = flashAtU[METADATA_BASE]
    /\ flash[METADATA_BASE + 1] = flashAtU[METADATA_BASE + 1]
    /\ StoredField(flash, 2) = up.size
    /\ StoredField(flash, 4) = up.msg
    /\ \A k \in 0..(up.msg - 1) : flash[RELEASE_BASE + k] = MsgByte(0, k)
    /\ \A n \in DOMAIN frames : \A i \in 0..(frames[n].len - 1) :
         LET at == FLASH_PAGESIZE * frames[n].index + i
         IN at < up.size =>
              flash[FW_BASE + at] =
                Xor(PayloadByte(0, frames[n].index, i), KeyStream(HostIV, at))

C3_Witness ==
  /\ pc = "idle"
  /\ outcome = "committed"
  /\ up.version = 0
  /\ up.size > 0
  /\ StoredVersion(flashAtU) = 3
  /\ StoredVersion(flash) = 3

\* C4: a frame metadata with a valid MAC and frame_version 1 is never
\* accepted: the error follows its verification directly, before any payload
\* read; no transaction of version 1 is past the frame loop.
C4_ReservedVersionRejected ==
  /\ \A n \in DOMAIN frames : frames[n].version # 1
  /\ (pc \in PostFrame \/ outcome \in {"committed", "rej_commit"}) => up.version # 1
  /\ (fr.seq > 0 /\ fr.version = 1) =>
       /\ outcome = "rej_frame"
       /\ ErrorAfter(LastFrameVerify)
       /\ \A j \in DOMAIN log : j > LastFrameVerify => log[j].item # "payload"

C4_Witness ==
  /\ pc = "boot"
  /\ fr.seq > 0
  /\ fr.version = 1
  /\ outcome = "rej_frame"

C6_BoundsBeforeCommit ==
  /\ \A n \in DOMAIN frames :
       /\ frames[n].len <= FLASH_PAGESIZE
       /\ SumLen(frames, n) <= up.size
  /\ (pc \in {"msg", "combined", "decrypt", "commit"}
        \/ outcome \in {"committed", "rej_commit"}) =>
       /\ up.size <= FW_MAX_SIZE
       /\ up.msg <= RELEASE_MAX_SIZE
       /\ SumLen(frames, Len(frames)) = up.size
  /\ (MetaVerified /\ (up.size > FW_MAX_SIZE \/ up.msg > RELEASE_MAX_SIZE)) =>
       (outcome = "rej_meta" /\ ErrorAfter(6))
  /\ (fr.seq > 0 /\ fr.len > FLASH_PAGESIZE) =>
       (outcome = "rej_frame" /\ ~Accepted(fr) /\ ErrorAfter(LastFrameVerify))
  /\ (outcome = "rej_size" => SumLen(frames, Len(frames)) # up.size)

C6_Witness ==
  /\ pc = "commit"
  /\ Len(frames) = 2
  /\ up.size = FLASH_PAGESIZE + 2
  /\ SumLen(frames, 2) = up.size

\* C7: after a committed upload of version >= 2 whose frames were all full
\* except possibly the last, the firmware region holds the decryption of the
\* concatenated payloads, the stored metadata is the uploaded one, and the
\* release-message page starts with the uploaded message.
C7_RoundTrip ==
  (/\ pc = "idle"
   /\ outcome = "committed"
   /\ up.version >= 2
   /\ \A n \in DOMAIN frames : n < Len(frames) => frames[n].len = FLASH_PAGESIZE) =>
    /\ \A k \in 0..(up.size - 1) :
         flash[FW_BASE + k] =
           Xor(PayloadByte(up.version, k \div FLASH_PAGESIZE, k % FLASH_PAGESIZE),
               KeyStream(HostIV, k))
    /\ StoredField(flash, 0) = up.version
    /\ StoredField(flash, 2) = up.size
    /\ StoredField(flash, 4) = up.msg
    /\ \A k \in 0..(up.msg - 1) : flash[RELEASE_BASE + k] = MsgByte(up.version, k)

C7_Witness ==
  /\ pc = "idle"
  /\ outcome = "committed"
  /\ up.version = 3
  /\ up.size = FLASH_PAGESIZE + 2
  /\ Len(frames) = 2
  /\ frames[1].len = FLASH_PAGESIZE

\* C8: every failure (a read that is not ok, a MAC or tag mismatch, a flash
\* program that returns non-zero) is followed directly by the diagnostic
\* line, the ERROR byte and the reset.
C8_EveryFailureReported ==
  \A i \in DOMAIN log :
    (\/ log[i].e = "read_err"
     \/ (log[i].e = "verify" /\ log[i].n = 0)
     \/ (log[i].e = "prog" /\ log[i].n # 0)) => ErrorAfter(i)

\* C9: MACs, IV and tag are read from the debug port (UART2); metadata, frame
\* metadata, payload and release message from the host port (UART1).
C9_AuthenticatorsFromDebug ==
  \A i \in DOMAIN log :
    log[i].e \in {"read", "read_err"} =>
      IF log[i].item \in {"hmac", "iv", "tag"}
      THEN log[i].ch = UART2
      ELSE log[i].ch = UART1

RECURSIVE FrameShapes(_, _)
\* what the device does for the first n accepted frames
FrameShapes(fs, n) ==
  IF n = 0 THEN <<>>
  ELSE FrameShapes(fs, n - 1) \o
       << <<"read", "fr_meta", FR_METADATA_SIZE>>, <<"read", "hmac", HMAC_SIZE>>,
          <<"verify", "fr_meta", 1>>, <<"read", "payload", fs[n].len>>,
          <<"read", "hmac", HMAC_SIZE>>, <<"verify", "frame", 1>>,
          <<"write", "ack", OK>> >>

\* what the device does in a successful update, from the echo to the last OK
UpdateShapes ==
  << <<"write", "echo", UPDATE>>, <<"write", "bolt", 1>>,
     <<"read", "fw_meta", FW_METADATA_SIZE>>, <<"read", "hmac", HMAC_SIZE>>,
     <<"verify", "fw_meta", 1>>, <<"write", "ack", OK>> >>
  \o FrameShapes(frames, Len(frames))
  \o << <<"read", "hmac", HMAC_SIZE>>, <<"verify", "firmware", 1>>,
        <<"write", "ack", OK>>,
        <<"read", "release_msg", up.msg>>, <<"read", "hmac", HMAC_SIZE>>,
        <<"verify", "release_msg", 1>>, <<"write", "ack", OK>>,
        <<"read", "hmac", HMAC_SIZE>>, <<"verify", "combined", 1>>,
        <<"write", "ack", OK>>,
        <<"read", "iv", IV_SIZE>>, <<"read", "tag", TAG_SIZE>>,
        <<"verify", "gcm", 1>>, <<"write", "ack", OK>> >>

\* C10: a successful update of N frames writes N + 5 OK bytes, each right
\* after the verification of its stage and before the next read, and only
\* flash programs follow the last one.
C10_AckPerStage ==
  (pc = "idle" /\ outcome = "committed") =>
    LET did == Shapes(Tail(log))
        n == Len(UpdateShapes)
    IN /\ Len(did) >= n
       /\ SubSeq(did, 1, n) = UpdateShapes
       /\ \A j \in DOMAIN did : j > n => did[j][1] = "prog"
       /\ Cardinality({j \in DOMAIN log : log[j] = AckOK}) = Len(frames) + 5
       /\ \A j \in DOMAIN log : log[j] # AckERROR

C10_Witness ==
  /\ pc = "idle"
  /\ outcome = "committed"
  /\ Len(frames) = 2
  /\ Cardinality({j \in DOMAIN log : log[j] = AckOK}) = 7

\* some FlashProgram call of the program_flash call returned non-zero
UnitCallFailed ==
  LET rem == unit.len % FLASH_WRITESIZE
      first == IF rem # 0 THEN unit.len - rem ELSE unit.len
  IN \/ (unit.fail = 1 /\ first > 0)
     \/ (unit.fail = 2 /\ rem # 0)

\* C11: program_flash returns non-zero iff one of its FlashProgram calls did;
\* when none did, the page holds src[0..len-1] followed by 0xFF whatever it
\* held before, the bytes of a partial last word lie in the low bytes of one
\* word padded with 0xFF, and no other page has changed.
C11_ProgramFlashPage ==
  (unit.op = "program_flash" /\ unit.done) =>
    LET src == UnitSrc(unit.src)
        rem == unit.len % FLASH_WRITESIZE
        full == unit.len - rem
    IN /\ (unit.ret # 0) <=> UnitCallFailed
       /\ ~UnitCallFailed =>
            /\ unit.ret = 0
            /\ \A k \in 0..(FLASH_PAGESIZE - 1) :
                 flash[unit.page + k] = IF k < unit.len THEN src[k] ELSE 255
            /\ rem # 0 =>
                 \A i \in 0..(FLASH_WRITESIZE - 1) :
                   flash[unit.page + full + i] = IF i < rem THEN src[full + i] ELSE 255
       /\ \A a \in DOMAIN flash :
            a \notin PageAddrs(unit.page) => flash[a] = UnitFlash(unit.prior)[a]

C11_Witness ==
  /\ unit.op = "program_flash"
  /\ unit.done
  /\ unit.len = FR_METADATA_SIZE
  /\ unit.prior = 1
  /\ unit.fail = 0
  /\ unit.ret = 0
  /\ flash[unit.page + FR_METADATA_SIZE - 1] = UnitSrc(unit.src)[FR_METADATA_SIZE - 1]
  /\ flash[unit.page + FR_METADATA_SIZE] = 255

\* C13: the MAC compare of sha_hmac takes HMAC_SIZE steps whatever the two
\* MACs are, and sha_hmac accepts exactly when all bytes are equal.
C13_CompareAllBytes ==
  (unit.op = "sha_hmac" /\ unit.done) =>
    /\ unit.steps = HMAC_SIZE
    /\ (unit.ret = HMAC_SIZE) <=> (DiffPos(unit.diff) = {})
    /\ unit.ret \in {0, HMAC_SIZE}

C13_Witness ==
  /\ unit.op = "sha_hmac"
  /\ unit.done
  /\ unit.diff = 1
  /\ unit.steps = HMAC_SIZE
  /\ unit.ret = 0

\* C12: once the device is provisioned, no reset programs the factory image
\* again: in a transaction that began on a provisioned device no flash
\* program follows the reset.
C12_ProvisionedOnce ==
  \A i \in DOMAIN log : \A j \in DOMAIN log :
    (Provisioned(flashAtU) /\ log[i].e = "reset" /\ j > i) => log[j].e # "prog"

\* C14: on a provisioned device a firmware metadata of version 1 with a valid
\* MAC and sizes within bounds passes the metadata stage: the OK follows the
\* verification.
C14_VersionOnePassesMetadata ==
  (/\ MetaVerified
   /\ Provisioned(flashAtU)
   /\ up.version = 1
   /\ up.size <= FW_MAX_SIZE
   /\ up.msg <= RELEASE_MAX_SIZE) =>
    (Len(log) >= 7 /\ log[7] = AckOK)

\* C15: every read that is not ok, the command read of the dispatch loop
\* included, is followed directly by the error and the reset.
C15_ReadFailureIsFatal ==
  \A i \in DOMAIN log : log[i].e = "read_err" => ErrorAfter(i)

\* C16: after a firmware metadata with fw_size = 0 the device reads no frame
\* metadata and no payload, and the transaction is never committed.
C16_NoFramesForEmptyFirmware ==
  (MetaVerified /\ up.size = 0) =>
    /\ \A i \in DOMAIN log : log[i].item \notin {"fr_meta", "payload"}
    /\ outcome # "committed"

\* C17: on a provisioned device the stored version at an Idle state is not
\* below the stored version at the Idle state in which the last U was received.
C17_VersionNeverDecreases ==
  (pc = "idle" /\ Provisioned(flashAtU) /\ Provisioned(flash)) =>
    StoredVersion(flash) >= StoredVersion(flashAtU)

\* C18: no write to the staging buffer is at an offset outside
\* [0, DATA_SIZE).
C18_StagingWritesInBounds ==
  /\ pc # "undefined"
  /\ \A i \in DOMAIN log : log[i].e # "oob"

RECURSIVE ConcatByte(_, _)
\* byte k of the payloads of the accepted frames n, n + 1, ... put end to end
ConcatByte(n, k) ==
  IF k < frames[n].len THEN PayloadByte(up.version, frames[n].index, k)
  ELSE ConcatByte(n + 1, k - frames[n].len)

\* C19: at the whole-firmware MAC stage, bytes [0, fw_size) of the staging
\* buffer are the payloads of the accepted frames put end to end.
C19_StagingIsConcatenation ==
  (pc = "fwmac" /\ bytes_recieved = size) =>
    \A k \in 0..(size - 1) : data[k] = ConcatByte(1, k)

\* C20: the frame loop accepts at most ceil(fw_size / PAGE) frames.
C20_FrameCountBounded ==
  Len(frames) <= (up.size + FLASH_PAGESIZE - 1) \div FLASH_PAGESIZE

====
